---------------------------- MODULE Spec2Model ----------------------------
(***************************************************************************)
(* A model of packages/abi/src.ts/abi-coder.ts: the AbiCoder dispatcher    *)
(* (_getCoder, _getWordSize, _getReader, _getWriter, encode, decode).      *)
(* The coders, the Reader and the Writer live in the coders directory,     *)
(* which is not part of the sources at hand; they are modelled from the    *)
(* design document (sections 4.2 - 4.7).                                   *)
(***************************************************************************)
EXTENDS Integers, Sequences, FiniteSets, TLC

VARIABLES coerceFunc, calls, heap

vars == <<coerceFunc, calls, heap>>

(***************************************************************************)
(* Text.  A JavaScript string is a sequence of one-character strings, so   *)
(* that the regular expressions and parseInt can look at its characters.   *)
(***************************************************************************)
Digits == {"0", "1", "2", "3", "4", "5", "6", "7", "8", "9"}

DigitVal(c) ==
    CASE c = "0" -> 0 [] c = "1" -> 1 [] c = "2" -> 2 [] c = "3" -> 3
      [] c = "4" -> 4 [] c = "5" -> 5 [] c = "6" -> 6 [] c = "7" -> 7
      [] c = "8" -> 8 [] c = "9" -> 9

S_uint == <<"u", "i", "n", "t">>
S_int == <<"i", "n", "t">>
S_bytes == <<"b", "y", "t", "e", "s">>
S_address == <<"a", "d", "d", "r", "e", "s", "s">>
S_bool == <<"b", "o", "o", "l">>
S_string == <<"s", "t", "r", "i", "n", "g">>
S_array == <<"a", "r", "r", "a", "y">>
S_tuple == <<"t", "u", "p", "l", "e">>
S_empty == <<>>

IsPrefix(p, s) == Len(p) <= Len(s) /\ SubSeq(s, 1, Len(p)) = p

Drop(s, n) == SubSeq(s, n + 1, Len(s))

AllDigits(s) == \A i \in 1..Len(s) : s[i] \in Digits

(***************************************************************************)
(* JavaScript numbers.  parseInt may yield NaN, and a division may yield a *)
(* fraction; both are kept apart from the integers.                        *)
(***************************************************************************)
Num(n) == [nan |-> FALSE, val |-> n]

NaN == [nan |-> TRUE]

IsInteger(x) == DOMAIN x = {"nan", "val"}

\* x === k, x > k, x % k and x !== k as JavaScript evaluates them (every
\* comparison with NaN is false, except !== which is true).
JsEq(x, k) == IsInteger(x) /\ x.val = k

JsGt(x, k) == IsInteger(x) /\ x.val > k

JsMod(x, k) == IF IsInteger(x) THEN Num(x.val % k) ELSE NaN

JsNe(x, k) == ~JsEq(x, k)

JsDiv(x, k) ==
    IF ~IsInteger(x) THEN NaN
    ELSE IF x.val % k = 0 THEN Num(x.val \div k)
    ELSE [nan |-> FALSE, val |-> x.val \div k, rem |-> x.val % k]

RECURSIVE DecimalValue(_)
DecimalValue(ds) ==
    IF ds = <<>> THEN 0
    ELSE 10 * DecimalValue(SubSeq(ds, 1, Len(ds) - 1)) + DigitVal(ds[Len(ds)])

\* parseInt on a string of decimal digits: NaN when there is no digit.
parseInt(ds) == IF ds = <<>> THEN NaN ELSE Num(DecimalValue(ds))

(***************************************************************************)
(* Conditions (errors.throwError): a thrown error carries its code.        *)
(***************************************************************************)
INVALID_ARGUMENT == "INVALID_ARGUMENT"
BUFFER_OVERRUN == "BUFFER_OVERRUN"
NUMERIC_FAULT == "NUMERIC_FAULT"

throwError(message, code) == [threw |-> TRUE, code |-> code, message |-> message]

Threw(x) == "threw" \in DOMAIN x

Null == [null |-> TRUE]

\* A field that may be null: None, or Some(value).
None == <<>>

Some(x) == <<x>>

(***************************************************************************)
(* The two regular expressions.  A match holds the matched text and the    *)
(* groups, Group(match, k) being match[k]; no match is Null.               *)
(***************************************************************************)
\* /^bytes([0-9]*)$/
paramTypeBytes(s) ==
    IF IsPrefix(S_bytes, s) /\ AllDigits(Drop(s, 5))
    THEN [groups |-> <<s, Drop(s, 5)>>]
    ELSE Null

\* /^(u?int)([0-9]*)$/
paramTypeNumber(s) ==
    IF IsPrefix(S_uint, s) /\ AllDigits(Drop(s, 4))
    THEN [groups |-> <<s, S_uint, Drop(s, 4)>>]
    ELSE IF IsPrefix(S_int, s) /\ AllDigits(Drop(s, 3))
    THEN [groups |-> <<s, S_int, Drop(s, 3)>>]
    ELSE Null

Group(match, k) == match.groups[k + 1]

(***************************************************************************)
(* The coders' constructors: kind, static/dynamic class (section 4.2) and  *)
(* the display name handed to the coercion hook.                           *)
(***************************************************************************)
AddressCoder(localName) ==
    [kind |-> "AddressCoder", type |-> "address", localName |-> localName,
     dynamic |-> FALSE]

BooleanCoder(localName) ==
    [kind |-> "BooleanCoder", type |-> "bool", localName |-> localName,
     dynamic |-> FALSE]

StringCoder(localName) ==
    [kind |-> "StringCoder", type |-> "string", localName |-> localName,
     dynamic |-> TRUE]

BytesCoder(localName) ==
    [kind |-> "BytesCoder", type |-> "bytes", localName |-> localName,
     dynamic |-> TRUE]

NullCoder(localName) ==
    [kind |-> "NullCoder", type |-> "null", localName |-> localName,
     dynamic |-> FALSE]

NumberCoder(size, signed, localName) ==
    [kind |-> "NumberCoder", type |-> IF signed THEN "int" ELSE "uint",
     localName |-> localName, dynamic |-> FALSE, size |-> size,
     signed |-> signed]

FixedBytesCoder(size, localName) ==
    [kind |-> "FixedBytesCoder", type |-> "bytesN", localName |-> localName,
     dynamic |-> FALSE, size |-> size]

ArrayCoder(coder, length, localName) ==
    [kind |-> "ArrayCoder", type |-> "array", localName |-> localName,
     dynamic |-> (length = -1 \/ coder.dynamic), coder |-> coder,
     length |-> length]

TupleCoder(coders, localName) ==
    [kind |-> "TupleCoder", type |-> "tuple", localName |-> localName,
     dynamic |-> (\E i \in 1..Len(coders) : coders[i].dynamic),
     coders |-> coders]

(***************************************************************************)
(* AbiCoder._getCoder                                                      *)
(***************************************************************************)
\* The branch taken on a match of paramTypeNumber.
GetNumberCoder_NoUpperBound(match, param) ==
    LET size == parseInt(IF Group(match, 2) = <<>> THEN <<"2", "5", "6">>
                         ELSE Group(match, 2))
    IN  IF JsEq(size, 0) \/ JsNe(JsMod(size, 8), 0)
        THEN throwError("invalid bit length", INVALID_ARGUMENT)
        ELSE NumberCoder(JsDiv(size, 8), Group(match, 1) = S_int, param.name)

GetNumberCoder_SignFlipped(match, param) ==
    LET size == parseInt(IF Group(match, 2) = <<>> THEN <<"2", "5", "6">>
                         ELSE Group(match, 2))
    IN  IF JsEq(size, 0) \/ JsGt(size, 256) \/ JsNe(JsMod(size, 8), 0)
        THEN throwError("invalid bit length", INVALID_ARGUMENT)
        ELSE NumberCoder(JsDiv(size, 8), Group(match, 1) = S_uint, param.name)

GetNumberCoder(match, param) ==
    LET size == parseInt(IF Group(match, 2) = <<>> THEN <<"2", "5", "6">>
                         ELSE Group(match, 2))
    IN  IF JsEq(size, 0) \/ JsGt(size, 256) \/ JsNe(JsMod(size, 8), 0)
        THEN throwError("invalid bit length", INVALID_ARGUMENT)
        ELSE NumberCoder(JsDiv(size, 8), Group(match, 1) = S_int, param.name)

\* The branch taken on a match of paramTypeBytes.
GetFixedBytesCoder_NoUpperBound(match, param) ==
    LET size == parseInt(Group(match, 1))
    IN  IF JsEq(size, 0)
        THEN throwError("invalid bytes length", INVALID_ARGUMENT)
        ELSE FixedBytesCoder(size, param.name)

GetFixedBytesCoder(match, param) ==
    LET size == parseInt(Group(match, 1))
    IN  IF JsEq(size, 0) \/ JsGt(size, 32)
        THEN throwError("invalid bytes length", INVALID_ARGUMENT)
        ELSE FixedBytesCoder(size, param.name)

NamedKinds ==
    {S_address, S_bool, S_string, S_bytes, S_array, S_tuple, S_empty}

\* A list of results with the first thrown error, if any, in front.
FirstThrown(rs) ==
    IF \E i \in 1..Len(rs) : Threw(rs[i])
    THEN rs[CHOOSE i \in 1..Len(rs) :
                /\ Threw(rs[i])
                /\ \A j \in 1..(i - 1) : ~Threw(rs[j])]
    ELSE Null

RECURSIVE _getCoder(_)
_getCoder(param) ==
    CASE param.baseType = S_address -> AddressCoder(param.name)
      [] param.baseType = S_bool -> BooleanCoder(param.name)
      [] param.baseType = S_string -> StringCoder(param.name)
      [] param.baseType = S_bytes -> BytesCoder(param.name)
      [] param.baseType = S_array ->
            LET child == _getCoder(param.arrayChildren)
            IN  IF Threw(child) THEN child
                ELSE ArrayCoder(child, param.arrayLength, param.name)
      [] param.baseType = S_tuple ->
            LET components == IF param.components = None THEN <<>>
                              ELSE param.components[1]
                comps == [i \in 1..Len(components) |->
                              _getCoder(components[i])]
            IN  IF FirstThrown(comps) # Null THEN FirstThrown(comps)
                ELSE TupleCoder(comps, param.name)
      [] param.baseType = S_empty -> NullCoder(param.name)
      [] OTHER ->
            IF paramTypeNumber(param.type) # Null
            THEN GetNumberCoder(paramTypeNumber(param.type), param)
            ELSE IF paramTypeBytes(param.type) # Null
            THEN GetFixedBytesCoder(paramTypeBytes(param.type), param)
            ELSE throwError("invalid type", INVALID_ARGUMENT)


(***************************************************************************)
(* Bytes and words.                                                        *)
(***************************************************************************)
Zeros(n) == [i \in 1..n |-> 0]

\* The n low-order bytes of v, big-endian, in two's complement.  The
\* integers of the model are below 2^31 in magnitude, so every byte above
\* the low four is the sign (\div and % round towards minus infinity).
NumBytes(v, n) ==
    [i \in 1..n |->
        CASE n - i = 0 -> v % 256
          [] n - i = 1 -> (v \div 256) % 256
          [] n - i = 2 -> (v \div 65536) % 256
          [] n - i = 3 -> (v \div 16777216) % 256
          [] OTHER -> IF v < 0 THEN 255 ELSE 0]

\* slice(0, k) and slice(-k): at most k bytes from the front, from the end.
FirstBytes(bytes, k) == SubSeq(bytes, 1, IF k < Len(bytes) THEN k ELSE Len(bytes))

LastBytes(bytes, k) ==
    SubSeq(bytes, (IF k < Len(bytes) THEN Len(bytes) - k ELSE 0) + 1,
           Len(bytes))

RECURSIVE Pow2(_)
Pow2(k) == IF k = 0 THEN 1 ELSE 2 * Pow2(k - 1)

\* An integer value (arbitrary precision): Z(n) while it fits IntBytes
\* bytes, and its bytes otherwise.
IntBytes == 2

Z(n) == [int |-> n]

Big(bytes) == [big |-> bytes]

RECURSIVE Unsigned(_)
Unsigned(bytes) ==
    IF bytes = <<>> THEN 0
    ELSE 256 * Unsigned(SubSeq(bytes, 1, Len(bytes) - 1)) + bytes[Len(bytes)]

AllAre(bytes, b) == \A i \in 1..Len(bytes) : bytes[i] = b

High(bytes) == SubSeq(bytes, 1, Len(bytes) - IntBytes)

Low(bytes) == SubSeq(bytes, Len(bytes) - IntBytes + 1, Len(bytes))

FitsUnsigned(bytes) == Len(bytes) <= IntBytes \/ AllAre(High(bytes), 0)

\* The non-negative integer a byte string that FitsUnsigned spells.
ToUnsigned(bytes) ==
    IF Len(bytes) <= IntBytes THEN Unsigned(bytes) ELSE Unsigned(Low(bytes))

\* The integer value a byte string spells, big-endian.
UnsignedValue(bytes) ==
    IF FitsUnsigned(bytes) THEN Z(ToUnsigned(bytes)) ELSE Big(bytes)

\* The integer value a byte string spells in two's complement.
FromTwos(bytes) ==
    IF bytes = <<>> THEN Z(0)
    ELSE IF bytes[1] < 128 THEN UnsignedValue(bytes)
    ELSE IF Len(bytes) <= IntBytes
    THEN Z(Unsigned(bytes) - Pow2(8 * Len(bytes)))
    ELSE IF AllAre(High(bytes), 255)
    THEN Z(Unsigned(Low(bytes)) - Pow2(8 * IntBytes))
    ELSE Big(bytes)

(***************************************************************************)
(* hexlify and arrayify (the bytes package).  A BytesLike is a byte array  *)
(* or a hex string: "0x" and two lower-case digits per byte.               *)
(***************************************************************************)
Uint8Array(bytes) == [bytes |-> bytes]

HexString(chars) == [hex |-> chars]

HexDigits ==
    <<"0", "1", "2", "3", "4", "5", "6", "7", "8", "9", "a", "b", "c", "d",
      "e", "f">>

HexVal(c) == CHOOSE i \in 0..15 : HexDigits[i + 1] = c

hexlify(bytes) ==
    HexString(<<"0", "x">> \o
              [i \in 1..(2 * Len(bytes)) |->
                  IF i % 2 = 1
                  THEN HexDigits[(bytes[(i + 1) \div 2] \div 16) + 1]
                  ELSE HexDigits[(bytes[i \div 2] % 16) + 1]])

\* The bytes of a BytesLike: a byte array as it is, a hex string parsed.
arrayify(data) ==
    IF "hex" \in DOMAIN data
    THEN [i \in 1..((Len(data.hex) - 2) \div 2) |->
             16 * HexVal(data.hex[2 * i + 1]) + HexVal(data.hex[2 * i + 2])]
    ELSE data.bytes

(***************************************************************************)
(* UTF-8, over the characters the model uses.                              *)
(***************************************************************************)
CharCode(c) == CASE c = "a" -> 97 [] c = "b" -> 98

\* A byte outside the model's alphabet decodes to the replacement character.
CodeChar(b) == CASE b = 97 -> "a" [] b = 98 -> "b" [] OTHER -> "?"

toUtf8Bytes(str) == [i \in 1..Len(str) |-> CharCode(str[i])]

toUtf8String(bytes) == [i \in 1..Len(bytes) |-> CodeChar(bytes[i])]

(***************************************************************************)
(* Writer (section 4.3).                                                   *)
(***************************************************************************)
Writer(wordSize) == [wordSize |-> wordSize, data |-> <<>>]

Aligned(n, alignment) == ((n + alignment - 1) \div alignment) * alignment

appendPadded(w, bytes) ==
    [w EXCEPT !.data = @ \o bytes \o
                       Zeros(Aligned(Len(bytes), w.wordSize) - Len(bytes))]

appendWord(w, word) == [w EXCEPT !.data = @ \o word]

writeValue(w, v) == appendWord(w, NumBytes(v, w.wordSize))

appendChild(w, child) == [w EXCEPT !.data = @ \o child.data]

\* A placeholder word; its handle is the byte offset it starts at.
reservePlaceholder(w) == appendWord(w, Zeros(w.wordSize))

fill(w, handle, word) ==
    [w EXCEPT !.data = [i \in 1..Len(@) |->
        IF i > handle /\ i <= handle + Len(word) THEN word[i - handle]
        ELSE @[i]]]

(***************************************************************************)
(* The coders' encode (sections 4.5 - 4.7).  The result is the writer      *)
(* after the writes, or the condition thrown.                              *)
(***************************************************************************)
\* Whether v is a value of the w-byte integer type.
InRange(v, w, signed) ==
    IF 8 * w > 30 THEN signed \/ v >= 0
    ELSE IF signed THEN v >= -Pow2(8 * w - 1) /\ v <= Pow2(8 * w - 1) - 1
    ELSE v >= 0 /\ v <= Pow2(8 * w) - 1

Repeat(x, n) == [i \in 1..n |-> x]

RECURSIVE CoderEncode(_, _, _)
RECURSIVE PackFrom(_, _, _, _)

\* One member of a composite: st holds the head writer, the tail writer and
\* the placeholders reserved so far (handle, offset of the tail segment in
\* the tail).
PackFrom(st, coders, values, i) ==
    IF i > Len(coders) THEN st
    ELSE IF coders[i].dynamic
    THEN LET tail == CoderEncode(st.tail, coders[i], values[i])
         IN  IF Threw(tail) THEN tail
             ELSE PackFrom([head |-> reservePlaceholder(st.head),
                            tail |-> tail,
                            slots |-> Append(st.slots,
                                <<Len(st.head.data), Len(st.tail.data)>>)],
                           coders, values, i + 1)
    ELSE LET head == CoderEncode(st.head, coders[i], values[i])
         IN  IF Threw(head) THEN head
             ELSE PackFrom([st EXCEPT !.head = head], coders, values, i + 1)

RECURSIVE FillFrom(_, _, _, _)
FillFrom(head, slots, headLength, k) ==
    IF k > Len(slots) THEN head
    ELSE FillFrom(fill(head, slots[k][1],
                       NumBytes(headLength + slots[k][2], head.wordSize)),
                  slots, headLength, k + 1)

\* The head/tail algorithm (section 4.7).
Pack(w, coders, values) ==
    LET st == PackFrom([head |-> Writer(w.wordSize),
                        tail |-> Writer(w.wordSize), slots |-> <<>>],
                       coders, values, 1)
    IN  IF Threw(st) THEN st
        ELSE appendChild(
                 appendChild(w, FillFrom(st.head, st.slots,
                                         Len(st.head.data), 1)),
                 st.tail)

CoderEncode(w, coder, value) ==
    CASE coder.kind = "AddressCoder" ->
            appendWord(w, Zeros(w.wordSize - Len(value)) \o value)
      [] coder.kind = "BooleanCoder" ->
            writeValue(w, IF value THEN 1 ELSE 0)
      [] coder.kind = "NumberCoder" ->
            IF InRange(value.int, coder.size.val, coder.signed)
            THEN writeValue(w, value.int)
            ELSE throwError("value out-of-bounds", NUMERIC_FAULT)
      [] coder.kind = "FixedBytesCoder" ->
            IF Len(value) = coder.size.val
            THEN appendWord(w, value \o Zeros(w.wordSize - Len(value)))
            ELSE throwError("incorrect data length", INVALID_ARGUMENT)
      [] coder.kind = "StringCoder" ->
            appendPadded(writeValue(w, Len(toUtf8Bytes(value))),
                         toUtf8Bytes(value))
      [] coder.kind = "BytesCoder" ->
            appendPadded(writeValue(w, Len(value)), value)
      [] coder.kind = "NullCoder" -> w
      [] coder.kind = "ArrayCoder" ->
            IF coder.length = -1
            THEN Pack(writeValue(w, Len(value)),
                      Repeat(coder.coder, Len(value)), value)
            ELSE IF Len(value) = coder.length
            THEN Pack(w, Repeat(coder.coder, coder.length), value)
            ELSE throwError("array length mismatch", INVALID_ARGUMENT)
      [] coder.kind = "TupleCoder" -> Pack(w, coder.coders, value)

(***************************************************************************)
(* Reader (section 4.4): the buffer, a cursor into it, the coercion hook.  *)
(***************************************************************************)
Reader(data, wordSize, hook) ==
    [data |-> data, wordSize |-> wordSize, coerceFunc |-> hook, offset |-> 0]

\* A cursor of its own over the same buffer, byteOffset after this one.
subReaderAt(r, byteOffset) == [r EXCEPT !.offset = @ + byteOffset]

\* n bytes, the cursor moved past their padding; a read past the end of the
\* buffer fails.
readBytes(r, n) ==
    IF r.offset + Aligned(n, r.wordSize) > Len(r.data)
    THEN throwError("data out-of-bounds", BUFFER_OVERRUN)
    ELSE [value |-> SubSeq(r.data, r.offset + 1, r.offset + n),
          reader |-> [r EXCEPT !.offset = @ + Aligned(n, r.wordSize)]]

readWord(r) == readBytes(r, r.wordSize)

\* The coercion hook of the model names the type of the value it is given.
Hook(typeName, rawValue) == [coerced |-> rawValue, as |-> typeName]

coerce(r, typeName, rawValue) ==
    IF r.coerceFunc = Null THEN rawValue ELSE Hook(typeName, rawValue)

(***************************************************************************)
(* The coders' decode (sections 4.5 - 4.7).  The result is the value and   *)
(* the reader after the reads, or the condition thrown.                    *)
(***************************************************************************)
Decoded(r, coder, rawValue, after) ==
    [value |-> coerce(r, coder.type, rawValue), reader |-> after]

RECURSIVE CoderDecode(_, _)
RECURSIVE UnpackFrom(_, _, _, _, _)

\* One member of a composite that starts at byte `base`: a static member is
\* read at the cursor, a dynamic one through a cursor at base + its offset.
UnpackFrom(r, base, coders, values, i) ==
    IF i > Len(coders) THEN [value |-> values, reader |-> r]
    ELSE IF coders[i].dynamic
    THEN LET slot == readWord(r)
         IN  IF Threw(slot) THEN slot
             ELSE IF ~FitsUnsigned(slot.value)
             THEN throwError("data out-of-bounds", BUFFER_OVERRUN)
             ELSE LET member ==
                          CoderDecode(
                              subReaderAt([r EXCEPT !.offset = base],
                                          ToUnsigned(slot.value)),
                              coders[i])
                  IN  IF Threw(member) THEN member
                      ELSE UnpackFrom(slot.reader, base, coders,
                                      Append(values, member.value), i + 1)
    ELSE LET member == CoderDecode(r, coders[i])
         IN  IF Threw(member) THEN member
             ELSE UnpackFrom(member.reader, base, coders,
                             Append(values, member.value), i + 1)

Unpack(r, coders) == UnpackFrom(r, r.offset, coders, <<>>, 1)

\* A length word, then that many bytes.
DecodeDynamicBytes(r) ==
    LET length == readWord(r)
    IN  IF Threw(length) THEN length
        ELSE IF ~FitsUnsigned(length.value)
        THEN throwError("data out-of-bounds", BUFFER_OVERRUN)
        ELSE readBytes(length.reader, ToUnsigned(length.value))

CoderDecode(r, coder) ==
    LET word == readWord(r)
        bytes == DecodeDynamicBytes(r)
    IN  CASE coder.kind = "AddressCoder" ->
                IF Threw(word) THEN word
                ELSE IF ~AllAre(FirstBytes(word.value, r.wordSize - 20), 0)
                THEN throwError("invalid address", INVALID_ARGUMENT)
                ELSE Decoded(r, coder, LastBytes(word.value, 20),
                             word.reader)
          [] coder.kind = "BooleanCoder" ->
                IF Threw(word) THEN word
                ELSE Decoded(r, coder, ~AllAre(word.value, 0), word.reader)
          [] coder.kind = "NumberCoder" ->
                IF Threw(word) THEN word
                ELSE Decoded(r, coder,
                        IF coder.signed
                        THEN FromTwos(LastBytes(word.value, coder.size.val))
                        ELSE UnsignedValue(word.value),
                        word.reader)
          [] coder.kind = "FixedBytesCoder" ->
                IF Threw(word) THEN word
                ELSE Decoded(r, coder, FirstBytes(word.value, coder.size.val),
                             word.reader)
          [] coder.kind = "StringCoder" ->
                IF Threw(bytes) THEN bytes
                ELSE Decoded(r, coder, toUtf8String(bytes.value),
                             bytes.reader)
          [] coder.kind = "BytesCoder" ->
                IF Threw(bytes) THEN bytes
                ELSE Decoded(r, coder, bytes.value, bytes.reader)
          [] coder.kind = "NullCoder" -> Decoded(r, coder, Null, r)
          [] coder.kind = "ArrayCoder" ->
                IF coder.length = -1
                THEN IF Threw(word) THEN word
                     ELSE IF ~FitsUnsigned(word.value)
                     THEN throwError("data out-of-bounds", BUFFER_OVERRUN)
                     ELSE Unpack(word.reader,
                                 Repeat(coder.coder, ToUnsigned(word.value)))
                ELSE Unpack(r, Repeat(coder.coder, coder.length))
          [] coder.kind = "TupleCoder" -> Unpack(r, coder.coders)

(***************************************************************************)
(* AbiCoder: the constructor, the word size, readers and writers.          *)
(***************************************************************************)
Undefined == [undefined |-> TRUE]

TagHook == [hook |-> "tag"]

\* The value of the coerceFunc field after construction: coerceFunc || null.
AbiCoder(hook) == IF hook = Undefined THEN Null ELSE hook

\* Faulty variant: half-size words.
getWordSize_Half == 32 \div 2

\* Faulty variant: double-size words.
getWordSize_Double == 32 * 2

_getWordSize == 32

\* new: the object is put on the heap and its reference returned.
New(h, obj) == [heap |-> Append(h, obj), ref |-> Len(h) + 1]

\* Faulty variant: the reader is given the data followed by a word of zeros.
getReader_ZeroPadded(h, data) ==
    New(h, Reader(data \o Zeros(32), _getWordSize, coerceFunc))

_getReader(h, data) == New(h, Reader(data, _getWordSize, coerceFunc))

IsWriter(obj) == DOMAIN obj = {"wordSize", "data"}

\* Faulty variant: one writer is kept and handed out again.
getWriter_Shared(h) ==
    IF \E i \in 1..Len(h) : IsWriter(h[i])
    THEN [heap |-> h, ref |-> CHOOSE i \in 1..Len(h) : IsWriter(h[i])]
    ELSE New(h, Writer(_getWordSize))

\* Faulty variant: the writer starts with a word already in it.
getWriter_Stale(h) ==
    New(h, [wordSize |-> _getWordSize, data |-> Zeros(_getWordSize)])

_getWriter(h) == New(h, Writer(_getWordSize))

(***************************************************************************)
(* AbiCoder.encode and AbiCoder.decode, statement by statement.            *)
(***************************************************************************)
Returned(v) == [returned |-> v]

\* ParamType.from on a ParamType.
ParamTypeFrom(type) == type

\* Faulty variant: only too few values are refused.
encodeCheck_TooFew(types, values) ==
    IF Len(types) > Len(values)
    THEN throwError("types/values length mismatch", INVALID_ARGUMENT)
    ELSE Null

\* if (types.length !== values.length) throwError(...)
encodeCheck(types, values) ==
    IF Len(types) # Len(values)
    THEN throwError("types/values length mismatch", INVALID_ARGUMENT)
    ELSE Null

\* types.map(type => this._getCoder(ParamType.from(type))), and the
\* synthetic tuple around the coders.
getCoders(types) ==
    LET coders == [i \in 1..Len(types) |-> _getCoder(ParamTypeFrom(types[i]))]
    IN  IF FirstThrown(coders) # Null THEN FirstThrown(coders)
        ELSE TupleCoder(coders, "_")

\* One call of encode on its own.
encode(types, values) ==
    IF Threw(encodeCheck(types, values)) THEN encodeCheck(types, values)
    ELSE IF Threw(getCoders(types)) THEN getCoders(types)
    ELSE LET writer == _getWriter(<<>>)
             written == CoderEncode(writer.heap[writer.ref],
                                    getCoders(types), values)
         IN  IF Threw(written) THEN written
             ELSE Returned(hexlify(written.data))

\* One call of decode on its own.
decode(types, data) ==
    IF Threw(getCoders(types)) THEN getCoders(types)
    ELSE LET reader == _getReader(<<>>, arrayify(data))
             read == CoderDecode(reader.heap[reader.ref], getCoders(types))
         IN  IF Threw(read) THEN read
             ELSE Returned(read.value)

(***************************************************************************)
(* Type descriptors (ParamType), as the fragments parser builds them.      *)
(***************************************************************************)
Scalar(type) ==
    [name |-> "", type |-> type, baseType |-> type, arrayLength |-> Null,
     arrayChildren |-> Null, components |-> None]

DecimalDigits(n) == IF n < 10 THEN <<HexDigits[n + 1]>> ELSE <<"9", "9">>

ArrayOf(child, length) ==
    [name |-> "",
     type |-> child.type \o <<"[">> \o
              (IF length = -1 THEN <<>> ELSE DecimalDigits(length)) \o <<"]">>,
     baseType |-> S_array, arrayLength |-> length, arrayChildren |-> child,
     components |-> None]

RECURSIVE JoinTypes(_)
JoinTypes(ps) ==
    IF ps = <<>> THEN <<>>
    ELSE IF Len(ps) = 1 THEN ps[1].type
    ELSE ps[1].type \o <<",">> \o JoinTypes(Tail(ps))

TupleOf(components) ==
    [name |-> "",
     type |-> S_tuple \o <<"(">> \o JoinTypes(components) \o <<")">>,
     baseType |-> S_tuple, arrayLength |-> Null, arrayChildren |-> Null,
     components |-> Some(components)]

T_uint8 == Scalar(S_uint \o <<"8">>)
T_int8 == Scalar(S_int \o <<"8">>)
T_uint256 == Scalar(S_uint \o <<"2", "5", "6">>)
T_int == Scalar(S_int)
T_bool == Scalar(S_bool)
T_address == Scalar(S_address)
T_bytes2 == Scalar(S_bytes \o <<"2">>)
T_string == Scalar(S_string)
T_bytes == Scalar(S_bytes)
T_null == Scalar(S_empty)
T_uint7 == Scalar(S_uint \o <<"7">>)

(***************************************************************************)
(* The inputs of the model.                                                *)
(***************************************************************************)
\* The longest dynamic array among the values.
MaxArrLen == 2

\* The calls that may be in flight together.
NumCalls == 2

RECURSIVE SeqProduct(_)
\* The sequences whose i-th element is drawn from sets[i].
SeqProduct(sets) ==
    IF sets = <<>> THEN {<<>>}
    ELSE {Append(s, x) : s \in SeqProduct(SubSeq(sets, 1, Len(sets) - 1)),
                         x \in sets[Len(sets)]}

Address1 == [i \in 1..20 |-> IF i = 1 THEN 222 ELSE i]

RECURSIVE ValuesOf(_)
\* Values in the valid domain of a type.
ValuesOf(p) ==
    CASE p.baseType = S_array ->
            UNION {SeqProduct(Repeat(ValuesOf(p.arrayChildren), n)) :
                   n \in IF p.arrayLength = -1 THEN 0..MaxArrLen
                         ELSE {p.arrayLength}}
      [] p.baseType = S_tuple ->
            SeqProduct([i \in 1..Len(p.components[1]) |->
                            ValuesOf(p.components[1][i])])
      [] p = T_uint8 -> {Z(0), Z(255)}
      [] p = T_int8 -> {Z(-128), Z(-1), Z(127)}
      [] p = T_uint256 -> {Z(1), Z(2)}
      [] p = T_int -> {Z(-1), Z(256)}
      [] p = T_bool -> {TRUE, FALSE}
      [] p = T_address -> {Address1}
      [] p = T_bytes2 -> {<<1, 2>>}
      [] p = T_string -> {<<>>, <<"a">>, Repeat("b", 33)}
      [] p = T_bytes -> {<<>>, <<0, 255>>}
      [] p = T_null -> {Null}
      [] OTHER -> {Z(0)}

TypeLists ==
    <<<<>>, <<T_uint8>>, <<T_int8>>, <<T_uint256>>, <<T_int>>, <<T_bool>>,
     <<T_address>>, <<T_bytes2>>, <<T_string>>, <<T_bytes>>, <<T_null>>,
     <<T_uint8, T_null>>, <<T_uint8, T_string>>, <<T_string, T_bytes>>,
     <<T_bool, T_int8>>,
     <<ArrayOf(T_uint256, -1)>>, <<ArrayOf(T_string, -1)>>,
     <<ArrayOf(T_uint8, 2)>>, <<ArrayOf(T_string, 2)>>,
     <<ArrayOf(T_string, 0)>>,
     <<TupleOf(<<T_uint8, T_bool>>)>>,
     <<TupleOf(<<T_uint8, ArrayOf(T_bytes, -1)>>), T_bool>>,
     <<T_uint7>>, <<T_bool, T_uint7>>>>

ValueLists(types) ==
    SeqProduct([i \in 1..Len(types) |-> ValuesOf(types[i])])

\* Value lists of the wrong length, and values outside their type.
BadValueLists(types) ==
    {Append(vs, Z(1)) : vs \in ValueLists(types)}
    \cup {SubSeq(vs, 1, Len(vs) - 1) : vs \in ValueLists(types) \ {<<>>}}
    \cup (IF types = <<T_uint8>> THEN {<<Z(256)>>, <<Z(-1)>>}
          ELSE IF types = <<T_int8>> THEN {<<Z(-129)>>, <<Z(128)>>}
          ELSE {})

W(n) == NumBytes(n, 32)

StringWord(str) == toUtf8Bytes(str) \o Zeros(32 - Len(str))

\* Buffers handed to decode: well-formed encodings, truncated ones, offsets
\* and lengths that point outside the buffer.
DecodeData ==
    <<Uint8Array(<<>>),
     Uint8Array(W(1)),
     Uint8Array(SubSeq(W(1), 1, 31)),
     Uint8Array(W(255) \o W(1)),
     Uint8Array(W(-1)),
     Uint8Array(<<1>> \o Zeros(31)),
     Uint8Array(W(32) \o W(2) \o W(1) \o W(2)),
     Uint8Array(W(32) \o W(2) \o W(1)),
     Uint8Array(W(64)),
     Uint8Array(W(96) \o W(0) \o W(0)),
     Uint8Array(W(32) \o W(1) \o StringWord(<<"a">>)),
     Uint8Array(W(32) \o W(1) \o <<97>>),
     Uint8Array(W(32) \o W(33) \o StringWord(<<"a">>)),
     Uint8Array(W(7) \o W(64) \o W(1) \o StringWord(<<"b">>)),
     Uint8Array(W(32) \o W(1) \o W(32) \o W(1) \o StringWord(<<"a">>)),
     hexlify(W(32) \o W(2) \o W(1) \o W(2)),
     hexlify(W(1) \o Zeros(12) \o Address1)>>

\* Descriptors for direct calls of _getCoder: every base kind with every
\* spelling, all fields populated.
Suffixes ==
    {<<>>, <<"0">>, <<"0", "0">>, <<"1">>, <<"7">>, <<"8">>, <<"0", "8">>,
     <<"1", "6">>, <<"3", "1">>, <<"3", "2">>, <<"3", "3">>,
     <<"0", "3", "2">>, <<"6", "4">>, <<"2", "4", "8">>, <<"2", "5", "5">>,
     <<"2", "5", "6">>, <<"2", "5", "7">>, <<"2", "6", "4">>,
     <<"5", "1", "2">>, <<"1", "0", "0", "0">>}

Spellings ==
    {prefix \o suffix : prefix \in {S_uint, S_int, S_bytes},
                         suffix \in Suffixes}
    \cup {S_address, S_bool, S_string, S_empty, <<"u">>,
          <<"x">> \o S_uint \o <<"8">>, S_uint \o <<"8", "x">>,
          S_uint \o <<"-", "8">>, S_bytes \o <<"x">>,
          S_bytes \o <<"3", "[", "]">>, <<"U", "I", "N", "T", "8">>,
          <<"b", "y", "t", "e", "3">>}

Desc(baseType, type) ==
    [name |-> "p", type |-> type, baseType |-> baseType, arrayLength |-> -1,
     arrayChildren |-> T_uint8, components |-> Some(<<T_bool>>)]

Params ==
    {Desc(b, t) : b \in NamedKinds \cup {<<"x">>}, t \in Spellings}
    \cup {Desc(t, t) : t \in Spellings}

\* The calls of the concurrent runs.
ConcEncodes ==
    <<<<<<T_uint8, T_string>>, <<Z(7), <<"a">>>>>>,
      <<<<ArrayOf(T_uint256, -1)>>, <<<<Z(1), Z(2)>>>>>>,
      <<<<T_bool>>, <<>>>>,
      <<<<T_uint8>>, <<Z(256)>>>>>>

ConcDecodes ==
    <<<<<<ArrayOf(T_uint256, -1)>>,
        Uint8Array(W(32) \o W(2) \o W(1) \o W(2))>>,
      <<<<T_uint8>>, Uint8Array(<<>>)>>>>

(***************************************************************************)
(* The state: the dispatcher's coerceFunc field, the calls in flight with  *)
(* their locals, and the heap of writers and readers.                      *)
(***************************************************************************)
Calls == 1..NumCalls

Idle ==
    [pc |-> "idle", op |-> "", types |-> <<>>, values |-> <<>>,
     data |-> Null, param |-> Null, coder |-> Null, ref |-> 0,
     result |-> Null]

Init ==
    /\ coerceFunc \in {AbiCoder(Undefined), AbiCoder(TagHook)}
    /\ calls = [c \in Calls |-> Idle]
    /\ heap = <<>>

\* A direct call of _getCoder.
GetCoderCall(c, param) ==
    /\ calls[c].pc = "idle"
    /\ calls' = [calls EXCEPT ![c] =
                    [@ EXCEPT !.pc = "done", !.op = "_getCoder",
                              !.param = param,
                              !.result = IF Threw(_getCoder(param))
                                         THEN _getCoder(param)
                                         ELSE Returned(_getCoder(param))]]
    /\ UNCHANGED <<coerceFunc, heap>>

\* encode, up to the coders: the length check, the coders, the tuple.
EncodeBegin(c, types, values) ==
    /\ calls[c].pc = "idle"
    /\ LET entered == [calls[c] EXCEPT !.op = "encode", !.types = types,
                                       !.values = values]
           check == encodeCheck(types, values)
           coder == getCoders(types)
       IN  calls' = [calls EXCEPT ![c] =
               IF Threw(check)
               THEN [entered EXCEPT !.pc = "done", !.result = check]
               ELSE IF Threw(coder)
               THEN [entered EXCEPT !.pc = "done", !.result = coder]
               ELSE [entered EXCEPT !.pc = "writer", !.coder = coder]]
    /\ UNCHANGED <<coerceFunc, heap>>

\* let writer = this._getWriter()
EncodeWriter(c) ==
    /\ calls[c].pc = "writer"
    /\ heap' = _getWriter(heap).heap
    /\ calls' = [calls EXCEPT ![c] =
                    [@ EXCEPT !.pc = "encode", !.ref = _getWriter(heap).ref]]
    /\ UNCHANGED coerceFunc

\* coder.encode(writer, values)
EncodeRun(c) ==
    /\ calls[c].pc = "encode"
    /\ LET written == CoderEncode(heap[calls[c].ref], calls[c].coder,
                                  calls[c].values)
       IN  IF Threw(written)
           THEN /\ calls' = [calls EXCEPT ![c] =
                                [@ EXCEPT !.pc = "done", !.result = written]]
                /\ heap' = heap
           ELSE /\ calls' = [calls EXCEPT ![c] = [@ EXCEPT !.pc = "return"]]
                /\ heap' = [heap EXCEPT ![calls[c].ref] = written]
    /\ UNCHANGED coerceFunc

\* return writer.data
EncodeReturn(c) ==
    /\ calls[c].pc = "return"
    /\ calls' = [calls EXCEPT ![c] =
                    [@ EXCEPT !.pc = "done",
                              !.result =
                                  Returned(hexlify(heap[calls[c].ref].data))]]
    /\ UNCHANGED <<coerceFunc, heap>>

\* decode, up to the coders.
DecodeBegin(c, types, data) ==
    /\ calls[c].pc = "idle"
    /\ LET entered == [calls[c] EXCEPT !.op = "decode", !.types = types,
                                       !.data = data]
           coder == getCoders(types)
       IN  calls' = [calls EXCEPT ![c] =
               IF Threw(coder)
               THEN [entered EXCEPT !.pc = "done", !.result = coder]
               ELSE [entered EXCEPT !.pc = "reader", !.coder = coder]]
    /\ UNCHANGED <<coerceFunc, heap>>

\* this._getReader(arrayify(data))
DecodeReader(c) ==
    /\ calls[c].pc = "reader"
    /\ heap' = _getReader(heap, arrayify(calls[c].data)).heap
    /\ calls' = [calls EXCEPT ![c] =
                    [@ EXCEPT !.pc = "decode",
                              !.ref = _getReader(heap,
                                          arrayify(calls[c].data)).ref]]
    /\ UNCHANGED coerceFunc

\* return coder.decode(reader)
DecodeRun(c) ==
    /\ calls[c].pc = "decode"
    /\ LET read == CoderDecode(heap[calls[c].ref], calls[c].coder)
       IN  IF Threw(read)
           THEN /\ calls' = [calls EXCEPT ![c] =
                                [@ EXCEPT !.pc = "done", !.result = read]]
                /\ heap' = heap
           ELSE /\ calls' = [calls EXCEPT ![c] =
                                [@ EXCEPT !.pc = "done",
                                          !.result = Returned(read.value)]]
                /\ heap' = [heap EXCEPT ![calls[c].ref] = read.reader]
    /\ UNCHANGED coerceFunc

Step(c) ==
    \/ EncodeWriter(c)
    \/ EncodeRun(c)
    \/ EncodeReturn(c)
    \/ DecodeReader(c)
    \/ DecodeRun(c)

\* One dispatcher, one call at a time.
Next ==
    \E c \in {1} :
        \/ \E param \in Params : GetCoderCall(c, param)
        \/ \E i \in 1..Len(TypeLists) :
               \E values \in ValueLists(TypeLists[i])
                             \cup BadValueLists(TypeLists[i]) :
                   EncodeBegin(c, TypeLists[i], values)
        \/ \E i \in 1..Len(TypeLists), j \in 1..Len(DecodeData) :
               DecodeBegin(c, TypeLists[i], DecodeData[j])
        \/ Step(c)

Spec == Init /\ [][Next]_vars

\* One dispatcher, several calls whose statements interleave.
NextConc ==
    \E c \in Calls :
        \/ \E i \in 1..Len(ConcEncodes) :
               EncodeBegin(c, ConcEncodes[i][1], ConcEncodes[i][2])
        \/ \E i \in 1..Len(ConcDecodes) :
               DecodeBegin(c, ConcDecodes[i][1], ConcDecodes[i][2])
        \/ Step(c)

SpecConc == Init /\ [][NextConc]_vars

(***************************************************************************)
(* Properties.                                                             *)
(***************************************************************************)
Finished(c, op) == calls[c].pc = "done" /\ calls[c].op = op

HasReturned(c) == "returned" \in DOMAIN calls[c].result

\* The bytes a finished encode call returned.
Output(c) == arrayify(calls[c].result.returned)

Resolves(types) == ~Threw(getCoders(types))

Unnamed(param) == param.baseType \notin NamedKinds

\* A spelling: the word `prefix` followed by digits only.
Spelled(type, prefix) ==
    /\ Len(type) >= Len(prefix)
    /\ \A i \in 1..Len(type) :
           IF i <= Len(prefix) THEN type[i] = prefix[i] ELSE type[i] \in Digits

SuffixOf(type, prefix) == SubSeq(type, Len(prefix) + 1, Len(type))

\* C1: encode fails with the invalid-argument condition "types/values length
\* mismatch", returning no bytes, whenever the two lists differ in length,
\* and never raises that condition when the lengths are equal.
C1_LengthMismatch ==
    \A c \in Calls :
        Finished(c, "encode") =>
            IF Len(calls[c].types) # Len(calls[c].values)
            THEN /\ Threw(calls[c].result)
                 /\ calls[c].result.code = INVALID_ARGUMENT
                 /\ calls[c].result.message = "types/values length mismatch"
                 /\ ~HasReturned(c)
            ELSE ~(/\ Threw(calls[c].result)
                   /\ calls[c].result.message = "types/values length mismatch")

C1_Witness ==
    \E c \in Calls :
        /\ Finished(c, "encode")
        /\ Len(calls[c].types) = 1
        /\ Len(calls[c].values) = 2
        /\ Threw(calls[c].result)

\* C2: a descriptor of no named base kind spelled u?int[0-9]* resolves to
\* the integer coder of suffix/8 bytes (256 when there is no suffix), signed
\* exactly when the spelling starts with int, if and only if the suffix is a
\* positive multiple of 8 not above 256; otherwise resolve fails with an
\* invalid-argument condition.
C2_IntegerWidth ==
    \A c \in Calls :
        (/\ Finished(c, "_getCoder")
         /\ Unnamed(calls[c].param)
         /\ \/ Spelled(calls[c].param.type, S_uint)
            \/ Spelled(calls[c].param.type, S_int)) =>
            LET type == calls[c].param.type
                signed == Spelled(type, S_int)
                suffix == SuffixOf(type, IF signed THEN S_int ELSE S_uint)
                bits == IF suffix = <<>> THEN 256 ELSE DecimalValue(suffix)
            IN  IF bits > 0 /\ bits % 8 = 0 /\ bits <= 256
                THEN calls[c].result =
                         Returned(NumberCoder(Num(bits \div 8), signed,
                                              calls[c].param.name))
                ELSE /\ Threw(calls[c].result)
                     /\ calls[c].result.code = INVALID_ARGUMENT

C2_Witness ==
    \E c \in Calls :
        /\ Finished(c, "_getCoder")
        /\ calls[c].param.type = S_int \o <<"6", "4">>
        /\ calls[c].param.baseType = calls[c].param.type
        /\ calls[c].result = Returned(NumberCoder(Num(8), TRUE, "p"))

\* C3: a descriptor of no named base kind spelled bytes[0-9]+ resolves to the
\* fixed-size byte-array coder of that width when the suffix is in 1..32,
\* and fails with an invalid-argument condition when it is 0 or above 32.
C3_FixedBytesWidth ==
    \A c \in Calls :
        (/\ Finished(c, "_getCoder")
         /\ Unnamed(calls[c].param)
         /\ Spelled(calls[c].param.type, S_bytes)
         /\ SuffixOf(calls[c].param.type, S_bytes) # <<>>) =>
            LET width == DecimalValue(SuffixOf(calls[c].param.type, S_bytes))
            IN  IF width \in 1..32
                THEN calls[c].result =
                         Returned(FixedBytesCoder(Num(width),
                                                  calls[c].param.name))
                ELSE /\ Threw(calls[c].result)
                     /\ calls[c].result.code = INVALID_ARGUMENT

C3_Witness ==
    \E c \in Calls :
        /\ Finished(c, "_getCoder")
        /\ calls[c].param.type = S_bytes \o <<"3", "2">>
        /\ calls[c].param.baseType = <<"x">>
        /\ calls[c].result = Returned(FixedBytesCoder(Num(32), "p"))

\* C10: whatever the base kind and the spelling, a fixed-size byte-array
\* coder or an integer coder that resolve returns has a width that is an
\* integer in 1..32.
C10_ScalarWidths ==
    \A c \in Calls :
        (/\ Finished(c, "_getCoder")
         /\ HasReturned(c)
         /\ calls[c].result.returned.kind
                \in {"FixedBytesCoder", "NumberCoder"}) =>
            /\ IsInteger(calls[c].result.returned.size)
            /\ calls[c].result.returned.size.val \in 1..32

\* An encode call whose types resolve and whose values are values of them.
ValidEncode(c) ==
    /\ Finished(c, "encode")
    /\ Resolves(calls[c].types)
    /\ calls[c].values \in ValueLists(calls[c].types)

\* C4: round trip.  With no coercion hook, decoding what encode returned
\* for values of the types gives the values back.
C4_RoundTrip ==
    \A c \in Calls :
        ValidEncode(c) =>
            /\ HasReturned(c)
            /\ coerceFunc = Null =>
                   decode(calls[c].types, calls[c].result.returned)
                       = Returned(calls[c].values)

C4_Witness ==
    \E c \in Calls :
        /\ ValidEncode(c)
        /\ coerceFunc = Null
        /\ calls[c].types = <<TupleOf(<<T_uint8, ArrayOf(T_bytes, -1)>>), T_bool>>
        /\ Len(calls[c].values[1][2]) = 2
        /\ decode(calls[c].types, calls[c].result.returned)
               = Returned(calls[c].values)

Sum(f) ==
    LET S[i \in 0..Len(f)] == IF i = 0 THEN 0 ELSE S[i - 1] + f[i]
    IN  S[Len(f)]

RECURSIVE StaticSize(_)
\* The bytes a static coder's value takes: a word for a scalar, nothing for
\* the empty type, the members' sizes together for a tuple or a fixed array.
StaticSize(coder) ==
    CASE coder.kind = "NullCoder" -> 0
      [] coder.kind = "TupleCoder" ->
            Sum([i \in 1..Len(coder.coders) |-> StaticSize(coder.coders[i])])
      [] coder.kind = "ArrayCoder" -> coder.length * StaticSize(coder.coder)
      [] OTHER -> 32

NoneDynamic(types) == ~getCoders(types).dynamic

\* C5 as stated: with no dynamic type, encode returns 32 * len(T) bytes.
C5_StaticSizeAsStated ==
    \A c \in Calls :
        (ValidEncode(c) /\ NoneDynamic(calls[c].types)) =>
            Len(Output(c)) = 32 * Len(calls[c].types)

\* C5, amended: with no dynamic type, encode returns the static sizes of the
\* members together: 32 bytes for a scalar, none for the empty type, and for
\* a static tuple or fixed array the sizes of its members together.
C5_StaticSize ==
    \A c \in Calls :
        (ValidEncode(c) /\ NoneDynamic(calls[c].types)) =>
            /\ HasReturned(c)
            /\ Len(Output(c)) = StaticSize(getCoders(calls[c].types))

C5_Witness ==
    \E c \in Calls :
        /\ ValidEncode(c)
        /\ calls[c].types = <<TupleOf(<<T_uint8, T_bool>>)>>
        /\ Len(Output(c)) = 64

\* C6: what encode returns is a whole number of 32-byte words.
C6_Alignment ==
    \A c \in Calls :
        (Finished(c, "encode") /\ HasReturned(c)) => Len(Output(c)) % 32 = 0

C6_Witness ==
    \E c \in Calls :
        /\ ValidEncode(c)
        /\ calls[c].types = <<T_string, T_bytes>>
        /\ Len(calls[c].values[1]) = 33
        /\ Len(calls[c].values[2]) = 2
        /\ Len(Output(c)) = 7 * 32

\* Bytes that are not in the buffer: what follows it, were it longer.
Beyond == {Zeros(64), Repeat(97, 64), W(1) \o W(1)}

Extended(data, more) == Uint8Array(arrayify(data) \o more)

OnlyWords(types) ==
    \A i \in 1..Len(getCoders(types).coders) :
        getCoders(types).coders[i].kind
            \in {"NumberCoder", "BooleanCoder", "FixedBytesCoder"}

\* C7: decode fails with a buffer-overrun condition when it has to read past
\* the end of the buffer, and never returns a value made of absent bytes:
\* a buffer shorter than the words of the types is refused; a value
\* returned is the value returned whatever follows the buffer; and when the
\* value depends on what follows the buffer, the buffer is refused.
C7_NoReadPastEnd ==
    \A c \in Calls :
        (Finished(c, "decode") /\ Resolves(calls[c].types)) =>
            LET types == calls[c].types
                data == calls[c].data
                result == calls[c].result
            IN  /\ (/\ OnlyWords(types)
                    /\ Len(arrayify(data)) < 32 * Len(types)) =>
                       (Threw(result) /\ result.code = BUFFER_OVERRUN)
                /\ ~Threw(result) =>
                       \A more \in Beyond :
                           decode(types, Extended(data, more)) = result
                /\ \A m1, m2 \in Beyond :
                       LET r1 == decode(types, Extended(data, m1))
                           r2 == decode(types, Extended(data, m2))
                       IN  (~Threw(r1) /\ ~Threw(r2) /\ r1 # r2) =>
                               (Threw(result) /\ result.code = BUFFER_OVERRUN)

\* A dynamic offset pointing outside the buffer is refused.
C7_Witness ==
    \E c \in Calls :
        /\ Finished(c, "decode")
        /\ calls[c].types = <<ArrayOf(T_uint256, -1)>>
        /\ calls[c].data = Uint8Array(W(64))
        /\ Threw(calls[c].result)
        /\ calls[c].result.code = BUFFER_OVERRUN

HeadSize(coder) == IF coder.dynamic THEN 32 ELSE StaticSize(coder)

\* The encoding of one value on its own.
Segment(coder, value) == CoderEncode(Writer(32), coder, value).data

RECURSIVE Composite(_, _, _)
RECURSIVE Members(_, _, _, _, _, _)

\* The members from the i-th on, the i-th head slot at byte `slot` and the
\* next tail segment expected at byte `tail` of the composite's encoding.
Members(coders, values, bytes, i, slot, tail) ==
    IF i > Len(coders) THEN tail = Len(bytes)
    ELSE IF coders[i].dynamic
    THEN LET segment == Segment(coders[i], values[i])
         IN  /\ SubSeq(bytes, slot + 1, slot + 32) = NumBytes(tail, 32)
             /\ SubSeq(bytes, tail + 1, tail + Len(segment)) = segment
             /\ Composite(coders[i], values[i], segment)
             /\ Members(coders, values, bytes, i + 1, slot + 32,
                        tail + Len(segment))
    ELSE Members(coders, values, bytes, i + 1,
                 slot + StaticSize(coders[i]), tail)

\* Whether `bytes`, the encoding of `value`, lays its composites out with
\* offsets relative to each composite's own start.
Composite(coder, value, bytes) ==
    CASE coder.kind = "TupleCoder" ->
            Members(coder.coders, value, bytes, 1, 0,
                    Sum([i \in 1..Len(coder.coders) |->
                             HeadSize(coder.coders[i])]))
      [] coder.kind = "ArrayCoder" ->
            LET elements == IF coder.length = -1 THEN Drop(bytes, 32)
                            ELSE bytes
            IN  Members(Repeat(coder.coder, Len(value)), value, elements, 1,
                        0, Len(value) * HeadSize(coder.coder))
      [] OTHER -> TRUE

\* C9: in the encoding of every composite (the top-level tuple, a nested
\* tuple, an array's elements) the head slot of a dynamic member holds the
\* distance from the start of that composite to the member's tail segment;
\* the tails follow the whole head, in the order of their members.
C9_RelativeOffsets ==
    \A c \in Calls :
        (Finished(c, "encode") /\ HasReturned(c)) =>
            Composite(getCoders(calls[c].types), calls[c].values, Output(c))

C9_Witness ==
    \E c \in Calls :
        /\ ValidEncode(c)
        /\ calls[c].types = <<ArrayOf(T_string, -1)>>
        /\ Len(calls[c].values[1]) = 2
        /\ SubSeq(Output(c), 1, 32) = W(32)
        /\ SubSeq(Output(c), 65, 96) = W(64)

\* What a call returns or throws when it runs on its own.
Alone(c) ==
    IF calls[c].op = "encode" THEN encode(calls[c].types, calls[c].values)
    ELSE decode(calls[c].types, calls[c].data)

\* C8: calls that interleave on one dispatcher do not interfere: no two
\* calls hold the same writer or reader, a finished call has the result it
\* has when run alone, and coerceFunc never changes.
C8_NoInterference ==
    /\ [](\A c \in Calls :
              /\ calls[c].pc = "done" => calls[c].result = Alone(c)
              /\ \A d \in Calls \ {c} :
                     calls[c].ref # 0 => calls[c].ref # calls[d].ref)
    /\ [][coerceFunc' = coerceFunc]_vars

\* Call 1 took its writer after call 2 and is finished before it.
C8_Witness ==
    /\ calls[1].pc = "done"
    /\ calls[1].op = "encode"
    /\ calls[1].ref = 2
    /\ HasReturned(1)
    /\ calls[2].pc = "encode"
    /\ calls[2].ref = 1

=============================================================================
